---- MODULE Spec2Model ----
(***************************************************************************)
(* A model of map2vmf.py: MapToVmfConverter.parse_map_file, the line       *)
(* driven parser of a .map document, and MapToVmfConverter.generate_vmf,   *)
(* the serializer of the parsed Document, and ConversionWorker.run, which   *)
(* reads the input file, converts it and writes the output file, and the    *)
(* window MapToVmfConverterGUI, which starts workers and handles their      *)
(* signals.                                                                 *)
(*                                                                         *)
(* Text is modelled by its lexical structure.  An input line is a record:  *)
(* its leading whitespace (lead), what the line is once stripped (kind and *)
(* the fields of that kind), so that strip(), startswith(), == and the two *)
(* regular expressions are operators on that structure.  An output line is *)
(* the sequence of the literal and interpolated pieces of its f-string;    *)
(* the returned text is the sequence of the lines joined by '\n'.          *)
(***************************************************************************)
EXTENDS Integers, Sequences, FiniteSets, TLC

\* Bounds of the model.
MaxLines == 4        \* lines of the input text
MaxBrushes == 2      \* brushes of a Document handed to generate_vmf (SpecGen)
MaxFaces == 2        \* faces of one such brush (SpecGen)
MaxBrushLines == 7   \* lines of an input text made of brush lines only (SpecDeep)
MaxConversions == 3  \* workers the window starts (SpecGui)

VARIABLES
    default_texture,        \* self.default_texture
    worldspawn_properties,  \* self.worldspawn_properties, a dict in insertion order
    brushes,                \* self.brushes
    lines,                  \* the lines of map_content the for loop has read so far
    in_worldspawn,          \* the locals of parse_map_file
    in_brush,
    current_brush,
    brace_depth,
    pending_brush,
    brush_count,
    face_count,
    material_replacements,
    pc,                     \* "parsing", "parsed", "document", "generated", "raised"
    stats,                  \* the dict parse_map_file returns
    vmf,                    \* the lines generate_vmf returns
    trace,                  \* history: the branch of the loop body that took each line
    current_src,            \* history: the input line of each face of current_brush
    brushes_src,            \* history: the input line of each face of each brush
    text_len,               \* the number of lines of content.split('\n')
    wpc,                    \* where ConversionWorker.run stands ("none": no worker)
    signals,                \* the signals the worker has emitted, in order
    output_file,            \* the destination file of the worker
    gui_input_file,         \* self.input_file of the window
    gui_output_file,        \* self.output_file of the window
    convert_btn,            \* whether the convert button is enabled
    gui_worker,             \* self.worker: the worker started last, 0 for None
    running,                \* the workers whose run() has not ended
    events                  \* the terminal signals queued to the window's thread

vars == <<default_texture, worldspawn_properties, brushes, lines, in_worldspawn,
          in_brush, current_brush, brace_depth, pending_brush, brush_count,
          face_count, material_replacements, pc, stats, vmf, trace,
          current_src, brushes_src, text_len, wpc, signals, output_file,
          gui_input_file, gui_output_file, convert_btn, gui_worker, running,
          events>>

-----------------------------------------------------------------------------
(* Input text *)

SENTINEL == "__TB_empty"
DEFAULT_TEXTURE == "dev/dev_measuregeneric01b"
None == [none |-> TRUE]

\* A parenthesized or bracketed group of a face line: the text of the group and
\* the whitespace before and after it inside the parentheses or brackets.
Group(lead, text, trail) == [lead |-> lead, text |-> text, trail |-> trail]
\* A numeric token of a face line: an optional sign, a run of `len` digits of
\* value `digits` (leading zeros count in len), an optional fraction.
Num(neg, digits, len, frac) == [neg |-> neg, digits |-> digits, len |-> len, frac |-> frac]

MarkerLine == [kind |-> "comment", lead |-> "", text |-> "// brush", rest |-> " 0"]
CommentLine == [kind |-> "comment", lead |-> "", text |-> "// entity", rest |-> " 0"]
OpenLine == [kind |-> "brace", lead |-> "", text |-> "{"]
CloseLine == [kind |-> "brace", lead |-> "", text |-> "}"]
BlankLine == [kind |-> "blank", lead |-> ""]
KvLine(key, value) == [kind |-> "kv", lead |-> "", key |-> key, value |-> value]
FaceText(lead, material, rotation, scale_x, scale_y) ==
    [kind |-> "face", lead |-> lead,
     p1 |-> Group(" ", "0 0 0", " "), p2 |-> Group(" ", "0 0 1", " "),
     p3 |-> Group(" ", "0 1 0", ""),
     material |-> material,
     uaxis |-> Group(" ", "1 0 0 0", " "), vaxis |-> Group("", "0 1 0 0", ""),
     rotation |-> rotation, scale_x |-> scale_x, scale_y |-> scale_y]

\* int(s) of a digit run longer than sys.get_int_max_str_digits() raises
\* ValueError on the interpreters that have the limit (CPython 3.11 and later, by
\* default 4300 digits); the others convert a run of any length.
INT_MAX_STR_DIGITS == 4300
LongRun == INT_MAX_STR_DIGITS + 1
IntMayRaise(tok) == tok.len > INT_MAX_STR_DIGITS

\* The lines an input text is made of.
Lines ==
    { MarkerLine, OpenLine, CloseLine, BlankLine,
      KvLine("classname", "worldspawn"), KvLine("mapversion", "220"),
      KvLine("classname", "func_group"),
      \* ... __TB_empty [...] [...] 0 1 1, indented
      FaceText("  ", SENTINEL, Num(FALSE, 0, 1, FALSE), Num(FALSE, 1, 1, FALSE),
               Num(FALSE, 1, 1, FALSE)),
      \* ... tex/wall [...] [...] 90 2 1.5
      FaceText("", "tex/wall", Num(FALSE, 90, 2, FALSE), Num(FALSE, 2, 1, FALSE),
               Num(FALSE, 1, 1, TRUE)),
      \* ... tex/wall [...] [...] -90 1 1
      FaceText("", "tex/wall", Num(TRUE, 90, 2, FALSE), Num(FALSE, 1, 1, FALSE),
               Num(FALSE, 1, 1, FALSE)),
      \* ... tex/wall [...] [...] 00...01 1 1, a rotation of LongRun digits
      FaceText("", "tex/wall", Num(FALSE, 1, LongRun, FALSE), Num(FALSE, 1, 1, FALSE),
               Num(FALSE, 1, 1, FALSE)) }

\* str.strip() of a line: the surrounding whitespace is removed.
strip(raw) == [raw EXCEPT !.lead = ""]
\* What the face pattern captures: \(\s*([^)]+)\s*\) leaves the leading whitespace
\* to \s* and takes the text with the whitespace after it; \[([^\]]+)\] takes all
\* that stands between the brackets.
PointGroup(g) == [lead |-> "", text |-> g.text, trail |-> g.trail]
AxisGroup(g) == g
\* str.strip() of a captured group.
strip_group(g) == g.text
\* The captured group as it stands.
group_text(g) == g.lead \o g.text \o g.trail

\* line.startswith('// brush')
IsBrushMarker(line) == line.kind = "comment" /\ line.lead = "" /\ line.text = "// brush"
\* line == '{' and line == '}'
IsOpenBrace(line) == line.kind = "brace" /\ line.lead = "" /\ line.text = "{"
IsCloseBrace(line) == line.kind = "brace" /\ line.lead = "" /\ line.text = "}"
\* line.startswith('"') and line.startswith('(')
StartsWithQuote(line) == line.kind = "kv" /\ line.lead = ""
StartsWithParen(line) == line.kind = "face" /\ line.lead = ""

\* re.match(r'"([^"]+)"\s+"([^"]*)"', line): the key is not empty.
PropertyMatch(line) == line.key # ""

\* re.match of the face pattern: \s+(\d+)\s+(\d+)\s+(\d+) takes three unsigned
\* digit runs separated by whitespace, and match() does not anchor the end of
\* the line, so what follows the digits of scale_y is left unread.
FaceMatch(line) ==
    /\ ~line.rotation.neg /\ ~line.rotation.frac
    /\ ~line.scale_x.neg /\ ~line.scale_x.frac
    /\ ~line.scale_y.neg

-----------------------------------------------------------------------------
(* MapToVmfConverter state *)

\* A dict is the sequence of its entries in insertion order.
\* (variant: the written key moves to the end)
DictSetMoveToEnd(d, key, value) ==
    SelectSeq(d, LAMBDA e : e.key # key) \o <<[key |-> key, value |-> value]>>

\* d[key] = value: an existing key keeps its position and takes the new value,
\* a new key goes to the end.
DictSet(d, key, value) ==
    IF \E i \in 1..Len(d) : d[i].key = key
    THEN [i \in 1..Len(d) |-> IF d[i].key = key
                              THEN [key |-> key, value |-> value] ELSE d[i]]
    ELSE Append(d, [key |-> key, value |-> value])

\* if current_brush: a dict holding the key 'faces' is true, None is false.
\* (variant: a brush is true only when it has faces)
TruthyWhenFaces(brush) == brush # None /\ brush.faces # <<>>

Truthy(brush) == brush # None

\* (variant: the material is kept as parsed)
SubstituteNever(material, texture) == material

\* if material == "__TB_empty": material = self.default_texture
Substitute(material, texture) == IF material = SENTINEL THEN texture ELSE material

\* (variant: every face counts as a replacement)
ReplacementsAlways(material, n) == n + 1

\* if material == "__TB_empty": material_replacements += 1
Replacements(material, n) == IF material = SENTINEL THEN n + 1 ELSE n

\* (variant: the groups are stored as captured, without strip())
MakeFaceNoStrip(m, texture) ==
    [p1 |-> group_text(PointGroup(m.p1)),
     p2 |-> group_text(PointGroup(m.p2)),
     p3 |-> group_text(PointGroup(m.p3)),
     material |-> Substitute(m.material, texture),
     uaxis |-> group_text(AxisGroup(m.uaxis)),
     vaxis |-> group_text(AxisGroup(m.vaxis)),
     rotation |-> m.rotation.digits,
     scale_x |-> m.scale_x.digits,
     scale_y |-> m.scale_y.digits]

\* The face dict built from the groups of a matched face line.
MakeFace(m, texture) ==
    [p1 |-> strip_group(PointGroup(m.p1)),
     p2 |-> strip_group(PointGroup(m.p2)),
     p3 |-> strip_group(PointGroup(m.p3)),
     material |-> Substitute(m.material, texture),
     uaxis |-> strip_group(AxisGroup(m.uaxis)),
     vaxis |-> strip_group(AxisGroup(m.vaxis)),
     rotation |-> m.rotation.digits,
     scale_x |-> m.scale_x.digits,
     scale_y |-> m.scale_y.digits]

\* A file: whether it exists and the lines it holds.
NoFile == [exists |-> FALSE, content |-> <<>>]
File(content) == [exists |-> TRUE, content |-> content]

\* The textures a converter is constructed with.
DefaultTextures == {DEFAULT_TEXTURE, SENTINEL}

Fresh ==
    /\ worldspawn_properties = <<>>
    /\ brushes = <<>>
    /\ lines = <<>>
    /\ in_worldspawn = FALSE
    /\ in_brush = FALSE
    /\ current_brush = None
    /\ brace_depth = 0
    /\ pending_brush = FALSE
    /\ brush_count = 0
    /\ face_count = 0
    /\ material_replacements = 0
    /\ pc = "parsing"
    /\ stats = None
    /\ vmf = <<>>
    /\ trace = <<>>
    /\ current_src = <<>>
    /\ brushes_src = <<>>

\* The window after init_ui: no file selected, the button disabled, no worker.
InitUi ==
    /\ gui_input_file = None
    /\ gui_output_file = None
    /\ convert_btn = FALSE
    /\ gui_worker = 0
    /\ running = {}
    /\ events = <<>>

\* No worker: the converter is used on its own.
NoWorker ==
    /\ wpc = "none"
    /\ signals = <<>>
    /\ output_file = NoFile
    /\ InitUi

\* A fresh converter about to parse a text of 1..MaxLines lines
\* (''.split('\n') has one line, the empty one).
Init ==
    /\ default_texture \in DefaultTextures
    /\ text_len \in 1..MaxLines
    /\ Fresh
    /\ NoWorker

-----------------------------------------------------------------------------
(* parse_map_file: one action per branch of the loop body *)

\* for line in lines: the loop takes the next line of the text.
\* The loop runs in a converter used on its own, or in the one of a worker that
\* has read its input.
LoopGuard ==
    /\ pc = "parsing"
    /\ Len(lines) < text_len
    /\ wpc \in {"none", "converting"}
worker == <<wpc, signals, output_file>>
gui == <<gui_input_file, gui_output_file, convert_btn, gui_worker, running, events>>
Read(raw, branch) ==
    /\ lines' = Append(lines, raw)
    /\ trace' = Append(trace, branch)
    /\ UNCHANGED <<text_len, worker, gui>>

converter == <<default_texture, worldspawn_properties, brushes, brushes_src>>
flags == <<in_worldspawn, in_brush, pending_brush, brace_depth>>
brush == <<current_brush, current_src>>
counters == <<brush_count, face_count, material_replacements>>
result == <<pc, stats, vmf>>

\* The conditions of the if statements, in the order the loop body tests them.
OpensWorldspawn(line) ==
    IsOpenBrace(line) /\ ~in_brush /\ ~in_worldspawn /\ ~pending_brush
\* (variant: any '}' closes the open worldspawn block)
ClosesWorldspawnAnywhere(line) ==
    in_worldspawn /\ IsCloseBrace(line)

\* if in_worldspawn and line == '}' and not in_brush and not pending_brush
ClosesWorldspawn(line) ==
    in_worldspawn /\ IsCloseBrace(line) /\ ~in_brush /\ ~pending_brush
IsProperty(line) == in_worldspawn /\ StartsWithQuote(line)
StartsBrush(line) == pending_brush /\ IsOpenBrace(line)
\* The line reached the test of in_brush: no earlier branch took it.
ReachesBrushBlock(line) ==
    /\ ~IsBrushMarker(line)
    /\ ~OpensWorldspawn(line)
    /\ ~ClosesWorldspawn(line)
    /\ ~IsProperty(line)
    /\ ~StartsBrush(line)
    /\ ~pending_brush

\* (variant: a marker seen while a brush open is pending is not counted again)
BrushMarkerOncePerPending(raw) ==
    LET line == strip(raw) IN
    /\ LoopGuard
    /\ IsBrushMarker(line)
    /\ pending_brush' = TRUE
    /\ brush_count' = IF pending_brush THEN brush_count ELSE brush_count + 1
    /\ Read(raw, "marker")
    /\ UNCHANGED <<converter, in_worldspawn, in_brush, brace_depth, brush,
                   face_count, material_replacements, result>>

\* if line.startswith('// brush')
BrushMarker(raw) ==
    LET line == strip(raw) IN
    /\ LoopGuard
    /\ IsBrushMarker(line)
    /\ pending_brush' = TRUE
    /\ brush_count' = brush_count + 1
    /\ Read(raw, "marker")
    /\ UNCHANGED <<converter, in_worldspawn, in_brush, brace_depth, brush,
                   face_count, material_replacements, result>>

\* if line == '{' and not in_brush and not in_worldspawn and not pending_brush
OpenWorldspawn(raw) ==
    LET line == strip(raw) IN
    /\ LoopGuard
    /\ ~IsBrushMarker(line)
    /\ OpensWorldspawn(line)
    /\ in_worldspawn' = TRUE
    /\ Read(raw, "open_worldspawn")
    /\ UNCHANGED <<converter, in_brush, pending_brush, brace_depth, brush,
                   counters, result>>

\* if in_worldspawn and line == '}' and not in_brush and not pending_brush
CloseWorldspawn(raw) ==
    LET line == strip(raw) IN
    /\ LoopGuard
    /\ ~IsBrushMarker(line)
    /\ ~OpensWorldspawn(line)
    /\ ClosesWorldspawn(line)
    /\ in_worldspawn' = FALSE
    /\ Read(raw, "close_worldspawn")
    /\ UNCHANGED <<converter, in_brush, pending_brush, brace_depth, brush,
                   counters, result>>

\* if in_worldspawn and line.startswith('"')
WorldspawnProperty(raw) ==
    LET line == strip(raw) IN
    /\ LoopGuard
    /\ ~IsBrushMarker(line)
    /\ ~OpensWorldspawn(line)
    /\ ~ClosesWorldspawn(line)
    /\ IsProperty(line)
    /\ IF PropertyMatch(line)
       THEN /\ worldspawn_properties' =
                   DictSet(worldspawn_properties, line.key, line.value)
            /\ Read(raw, "property")
       ELSE /\ UNCHANGED worldspawn_properties
            /\ Read(raw, "no_property")
    /\ UNCHANGED <<default_texture, brushes, brushes_src, flags, brush,
                   counters, result>>

\* (variant: a brush opened inside a brush keeps the faces parsed so far)
StartBrushKeepsFaces(raw) ==
    LET line == strip(raw) IN
    /\ LoopGuard
    /\ ~IsBrushMarker(line)
    /\ ~OpensWorldspawn(line)
    /\ ~ClosesWorldspawn(line)
    /\ ~IsProperty(line)
    /\ StartsBrush(line)
    /\ in_brush' = TRUE
    /\ current_brush' = IF in_brush THEN current_brush ELSE [faces |-> <<>>]
    /\ current_src' = IF in_brush THEN current_src ELSE <<>>
    /\ brace_depth' = 1
    /\ pending_brush' = FALSE
    /\ Read(raw, "start_brush")
    /\ UNCHANGED <<converter, in_worldspawn, counters, result>>

\* if pending_brush and line == '{'
StartBrush(raw) ==
    LET line == strip(raw) IN
    /\ LoopGuard
    /\ ~IsBrushMarker(line)
    /\ ~OpensWorldspawn(line)
    /\ ~ClosesWorldspawn(line)
    /\ ~IsProperty(line)
    /\ StartsBrush(line)
    /\ in_brush' = TRUE
    /\ current_brush' = [faces |-> <<>>]
    /\ current_src' = <<>>
    /\ brace_depth' = 1
    /\ pending_brush' = FALSE
    /\ Read(raw, "start_brush")
    /\ UNCHANGED <<converter, in_worldspawn, counters, result>>

\* if pending_brush: continue
PendingSkip(raw) ==
    LET line == strip(raw) IN
    /\ LoopGuard
    /\ ~IsBrushMarker(line)
    /\ ~OpensWorldspawn(line)
    /\ ~ClosesWorldspawn(line)
    /\ ~IsProperty(line)
    /\ ~StartsBrush(line)
    /\ pending_brush
    /\ Read(raw, "pending_skip")
    /\ UNCHANGED <<converter, flags, brush, counters, result>>

\* (variant: a nested '{' starts the faces of the brush over)
NestedOpenStartsOver(raw) ==
    LET line == strip(raw) IN
    /\ LoopGuard
    /\ ReachesBrushBlock(line)
    /\ in_brush
    /\ IsOpenBrace(line)
    /\ brace_depth' = brace_depth + 1
    /\ Read(raw, "nested_open")
    /\ current_brush' = [faces |-> <<>>]
    /\ current_src' = <<>>
    /\ UNCHANGED <<converter, in_worldspawn, in_brush, pending_brush,
                   counters, result>>

\* if in_brush: if line == '{'
NestedOpen(raw) ==
    LET line == strip(raw) IN
    /\ LoopGuard
    /\ ReachesBrushBlock(line)
    /\ in_brush
    /\ IsOpenBrace(line)
    /\ brace_depth' = brace_depth + 1
    /\ Read(raw, "nested_open")
    /\ UNCHANGED <<converter, in_worldspawn, in_brush, pending_brush, brush,
                   counters, result>>

\* (variant: the '}' that closes a brush also closes the worldspawn block)
CloseBrushLeavesWorldspawn(raw) ==
    LET line == strip(raw) IN
    /\ LoopGuard
    /\ ReachesBrushBlock(line)
    /\ in_brush
    /\ ~IsOpenBrace(line)
    /\ IsCloseBrace(line)
    /\ brace_depth' = brace_depth - 1
    /\ IF brace_depth' = 0
       THEN /\ in_brush' = FALSE
            /\ in_worldspawn' = FALSE
            /\ IF Truthy(current_brush)
               THEN /\ brushes' = Append(brushes, current_brush)
                    /\ brushes_src' = Append(brushes_src, current_src)
                    /\ current_brush' = None
                    /\ current_src' = <<>>
               ELSE UNCHANGED <<brushes, brushes_src, brush>>
       ELSE UNCHANGED <<in_brush, in_worldspawn, brushes, brushes_src, brush>>
    /\ Read(raw, IF brace_depth' = 0 THEN "brush_closed" ELSE "nested_close")
    /\ UNCHANGED <<default_texture, worldspawn_properties, pending_brush,
                   counters, result>>

\* if in_brush: elif line == '}'
CloseBrush(raw) ==
    LET line == strip(raw) IN
    /\ LoopGuard
    /\ ReachesBrushBlock(line)
    /\ in_brush
    /\ ~IsOpenBrace(line)
    /\ IsCloseBrace(line)
    /\ brace_depth' = brace_depth - 1
    /\ IF brace_depth' = 0
       THEN /\ in_brush' = FALSE
            /\ IF Truthy(current_brush)
               THEN /\ brushes' = Append(brushes, current_brush)
                    /\ brushes_src' = Append(brushes_src, current_src)
                    /\ current_brush' = None
                    /\ current_src' = <<>>
               ELSE UNCHANGED <<brushes, brushes_src, brush>>
       ELSE UNCHANGED <<in_brush, brushes, brushes_src, brush>>
    /\ Read(raw, IF brace_depth' = 0 THEN "brush_closed" ELSE "nested_close")
    /\ UNCHANGED <<default_texture, worldspawn_properties, in_worldspawn,
                   pending_brush, counters, result>>

\* Whether building the face dict raises: int() of rotation, scale_x or scale_y
\* may raise ValueError, and current_brush['faces'] raises TypeError when
\* current_brush is None.
FaceOutcomes(line) ==
    IF current_brush = None THEN {"raise"}
    ELSE IF IntMayRaise(line.rotation) \/ IntMayRaise(line.scale_x)
            \/ IntMayRaise(line.scale_y)
         THEN {"raise", "append"}
         ELSE {"append"}

\* if in_brush: if line.startswith('('): a matched line is counted when it
\* carries the sentinel, converted to a face dict and appended to the faces of
\* current_brush.
ParseFace(raw) ==
    LET line == strip(raw) IN
    /\ LoopGuard
    /\ ReachesBrushBlock(line)
    /\ in_brush
    /\ ~IsOpenBrace(line)
    /\ ~IsCloseBrace(line)
    /\ StartsWithParen(line)
    /\ IF FaceMatch(line)
       THEN /\ material_replacements' =
                   Replacements(line.material, material_replacements)
            /\ \E outcome \in FaceOutcomes(line) :
                  IF outcome = "raise"
                  THEN /\ pc' = "raised"
                       /\ Read(raw, "raise")
                       /\ UNCHANGED <<brush, face_count>>
                  ELSE /\ current_brush' =
                              [current_brush EXCEPT
                                 !.faces = Append(@, MakeFace(line, default_texture))]
                       /\ current_src' = Append(current_src, Len(lines) + 1)
                       /\ face_count' = face_count + 1
                       /\ Read(raw, "face")
                       /\ UNCHANGED pc
       ELSE /\ UNCHANGED <<brush, face_count, material_replacements, pc>>
            /\ Read(raw, "no_face")
    /\ UNCHANGED <<converter, flags, brush_count, stats, vmf>>

\* if in_brush: any other line falls to the continue that ends the block
BrushOtherLine(raw) ==
    LET line == strip(raw) IN
    /\ LoopGuard
    /\ ReachesBrushBlock(line)
    /\ in_brush
    /\ ~IsOpenBrace(line)
    /\ ~IsCloseBrace(line)
    /\ ~StartsWithParen(line)
    /\ Read(raw, "brush_other")
    /\ UNCHANGED <<converter, flags, brush, counters, result>>

\* No branch takes the line: the loop body ends and the next line is read.
SkipLine(raw) ==
    LET line == strip(raw) IN
    /\ LoopGuard
    /\ ReachesBrushBlock(line)
    /\ ~in_brush
    /\ Read(raw, "skip")
    /\ UNCHANGED <<converter, flags, brush, counters, result>>

\* (variant: a brush still open at the end of the input is appended)
ReturnStatsAppendsOpen ==
    /\ pc = "parsing"
    /\ Len(lines) = text_len
    /\ pc' = "parsed"
    /\ brushes' = IF in_brush /\ current_brush # None
                  THEN Append(brushes, current_brush) ELSE brushes
    /\ brushes_src' = IF in_brush /\ current_brush # None
                      THEN Append(brushes_src, current_src) ELSE brushes_src
    /\ stats' = [brushes_found |-> brush_count,
                 brushes_processed |-> Len(brushes'),
                 faces_processed |-> face_count,
                 material_replacements |-> material_replacements]
    /\ UNCHANGED <<default_texture, worldspawn_properties, lines, trace, text_len, flags,
                   brush, counters, vmf>>

\* The loop ends (split('\n') yields at least one line) and the statistics are
\* returned; nothing is appended at the end of the input.
ReturnStats ==
    /\ pc = "parsing"
    /\ Len(lines) = text_len
    /\ pc' = "parsed"
    /\ stats' = [brushes_found |-> brush_count,
                 brushes_processed |-> Len(brushes),
                 faces_processed |-> face_count,
                 material_replacements |-> material_replacements]
    /\ UNCHANGED <<converter, lines, trace, text_len, flags, brush, counters, vmf>>

-----------------------------------------------------------------------------
(* generate_vmf *)

\* (variant: an empty mapping is written as the classname of the world)
PropertyLinesDefaultClass(properties) ==
    IF properties = <<>> THEN << <<"\t\"classname\" \"worldspawn\"">> >>
    ELSE [i \in 1..Len(properties) |->
            <<"\t\"", properties[i].key, "\" \"", properties[i].value, "\"">>]

\* for key, value in self.worldspawn_properties.items()
PropertyLines(properties) ==
    [i \in 1..Len(properties) |->
        <<"\t\"", properties[i].key, "\" \"", properties[i].value, "\"">>]

\* (variant: the texture scale of the face is written after the axis)
SideBlockScaled(face, side_id) ==
    << <<"\t\tside">>,
       <<"\t\t{">>,
       <<"\t\t\t\"id\" \"", ToString(side_id), "\"">>,
       <<"\t\t\t\"plane\" \"(", face.p1, ") (", face.p2, ") (", face.p3, ")\"">>,
       <<"\t\t\t\"material\" \"", face.material, "\"">>,
       <<"\t\t\t\"uaxis\" \"[", face.uaxis, "] ", ToString(face.scale_x), "\"">>,
       <<"\t\t\t\"vaxis\" \"[", face.vaxis, "] ", ToString(face.scale_y), "\"">>,
       <<"\t\t\t\"lightmapscale\" \"16\"">>,
       <<"\t\t}">> >>

\* The lines of one side block.
SideBlock(face, side_id) ==
    << <<"\t\tside">>,
       <<"\t\t{">>,
       <<"\t\t\t\"id\" \"", ToString(side_id), "\"">>,
       <<"\t\t\t\"plane\" \"(", face.p1, ") (", face.p2, ") (", face.p3, ")\"">>,
       <<"\t\t\t\"material\" \"", face.material, "\"">>,
       <<"\t\t\t\"uaxis\" \"[", face.uaxis, "] 0.25\"">>,
       <<"\t\t\t\"vaxis\" \"[", face.vaxis, "] 0.25\"">>,
       <<"\t\t\t\"lightmapscale\" \"16\"">>,
       <<"\t\t}">> >>

\* for face in brush['faces']: ... side_id += 1
RECURSIVE SideBlocks(_, _)
SideBlocks(faces, side_id) ==
    IF faces = <<>> THEN <<>>
    ELSE SideBlock(Head(faces), side_id) \o SideBlocks(Tail(faces), side_id + 1)

\* (variant: side_id is set back to 2 for every brush)
SideIdAfterReset(side_id, faces) == 2

\* The value of side_id after the faces of one brush.
SideIdAfter(side_id, faces) == side_id + Len(faces)

\* (variant: a brush with no face is left out of the output)
SolidBlockOnlyWithFaces(b, solid_id, side_id) ==
    IF b.faces = <<>> THEN <<>>
    ELSE << <<"\tsolid">>,
            <<"\t{">>,
            <<"\t\t\"id\" \"", ToString(solid_id), "\"">> >>
         \o SideBlocks(b.faces, side_id)
         \o << <<"\t}">> >>

\* The lines of one solid block.
SolidBlock(b, solid_id, side_id) ==
    << <<"\tsolid">>,
       <<"\t{">>,
       <<"\t\t\"id\" \"", ToString(solid_id), "\"">> >>
    \o SideBlocks(b.faces, side_id)
    \o << <<"\t}">> >>

\* for brush in self.brushes: ... solid_id += 1
RECURSIVE SolidBlocks(_, _, _)
SolidBlocks(bs, solid_id, side_id) ==
    IF bs = <<>> THEN <<>>
    ELSE SolidBlock(Head(bs), solid_id, side_id)
         \o SolidBlocks(Tail(bs), solid_id + 1, SideIdAfter(side_id, Head(bs).faces))

\* The lines generate_vmf joins with '\n'.
generate_vmf(properties, bs) ==
    << <<"world">>, <<"{">>, <<"\t\"id\" \"0\"">> >>
    \o PropertyLines(properties)
    \o SolidBlocks(bs, 1, 2)
    \o << <<"}">> >>

GenerateVmf ==
    /\ pc \in {"parsed", "document"}
    /\ vmf' = generate_vmf(worldspawn_properties, brushes)
    /\ pc' = "generated"
    /\ UNCHANGED <<converter, lines, trace, text_len, flags, brush, counters, stats>>

-----------------------------------------------------------------------------
(* ConversionWorker.run *)

\* What the worker emits.
Progress(value) == [signal |-> "progress", value |-> value]
Error(e) == [signal |-> "error", message |-> <<"Error during conversion: ", e>>]
\* The success message, without its two file names and the len() of the text.
Message ==
    <<"Successfully converted", "Conversion Statistics:",
      "Brushes found: ", ToString(stats.brushes_found),
      "Brushes processed: ", ToString(stats.brushes_processed),
      "Faces processed: ", ToString(stats.faces_processed),
      "Material replacements: ", ToString(stats.material_replacements),
      "Default texture used: ", default_texture>>
Finished == [signal |-> "finished", message |-> Message]

\* What the destination holds before the run, when it exists.
OldContent == << <<"old">> >>

parser == <<lines, trace, text_len, flags, brush, counters>>

\* open(self.input_file, 'r') or f.read() raises.
WorkerReadFails ==
    /\ wpc = "start"
    /\ signals' = Append(signals, Error("read"))
    /\ wpc' = "done"
    /\ UNCHANGED <<gui, converter, parser, result, output_file>>

\* The input is read: progress 25, and a converter is made for the text.
WorkerRead ==
    /\ wpc = "start"
    /\ signals' = Append(signals, Progress(25))
    /\ wpc' = "converting"
    /\ UNCHANGED <<gui, converter, parser, result, output_file>>

\* parse_map_file returns: progress 75.
WorkerParsed ==
    /\ wpc = "converting"
    /\ ReturnStats
    /\ signals' = Append(signals, Progress(75))
    /\ UNCHANGED <<gui, wpc, output_file>>

\* (variant: an exception of the parser ends the run without a signal)
WorkerRaisedSilently ==
    /\ wpc = "converting"
    /\ pc = "raised"
    /\ wpc' = "done"
    /\ UNCHANGED <<gui, converter, parser, result, signals, output_file>>

\* parse_map_file raises: except Exception emits error.
WorkerRaised ==
    /\ wpc = "converting"
    /\ pc = "raised"
    /\ signals' = Append(signals, Error("parse"))
    /\ wpc' = "done"
    /\ UNCHANGED <<gui, converter, parser, result, output_file>>

\* generate_vmf returns: progress 90.
WorkerGenerated ==
    /\ wpc = "converting"
    /\ pc = "parsed"
    /\ GenerateVmf
    /\ signals' = Append(signals, Progress(90))
    /\ wpc' = "open"
    /\ UNCHANGED <<gui, output_file>>

\* open(self.output_file, 'w') raises: the destination is not touched.
WorkerOpenFails ==
    /\ wpc = "open"
    /\ signals' = Append(signals, Error("open"))
    /\ wpc' = "done"
    /\ UNCHANGED <<gui, converter, parser, result, output_file>>

\* open(self.output_file, 'w') creates the destination or truncates it.
WorkerOpen ==
    /\ wpc = "open"
    /\ output_file' = File(<<>>)
    /\ wpc' = "write"
    /\ UNCHANGED <<gui, converter, parser, result, signals>>

\* f.write or the close of the file raises: some part of the text is written.
WorkerWriteFails ==
    /\ wpc = "write"
    /\ \E n \in 0..(Len(vmf) - 1) : output_file' = File(SubSeq(vmf, 1, n))
    /\ signals' = Append(signals, Error("write"))
    /\ wpc' = "done"
    /\ UNCHANGED <<gui, converter, parser, result>>

\* The text is written and the file closed.
WorkerWrite ==
    /\ wpc = "write"
    /\ output_file' = File(vmf)
    /\ wpc' = "written"
    /\ UNCHANGED <<gui, converter, parser, result, signals>>

\* progress 100, then finished with the message.
WorkerFinished ==
    /\ wpc = "written"
    /\ signals' = signals \o <<Progress(100), Finished>>
    /\ wpc' = "done"
    /\ UNCHANGED <<gui, converter, parser, result, output_file>>

-----------------------------------------------------------------------------
(* MapToVmfConverterGUI *)

\* What a file dialog returns: a path, or '' when it is cancelled.
Path(name) == [path |-> name]
InputPaths == {"", "a.map", "b.map"}
OutputPaths == {"", "a.vmf"}

\* bool(self.input_file and self.output_file)
check_ready(input, output) == input # None /\ output # None

idle == <<converter, parser, result, worker>>

select_input_file(file_path) ==
    /\ IF file_path # ""
       THEN /\ gui_input_file' = Path(file_path)
            /\ convert_btn' = check_ready(gui_input_file', gui_output_file)
       ELSE UNCHANGED <<gui_input_file, convert_btn>>
    /\ UNCHANGED <<gui_output_file, gui_worker, running, events, idle>>

select_output_file(file_path) ==
    /\ IF file_path # ""
       THEN /\ gui_output_file' = Path(file_path)
            /\ convert_btn' = check_ready(gui_input_file, gui_output_file')
       ELSE UNCHANGED <<gui_output_file, convert_btn>>
    /\ UNCHANGED <<gui_input_file, gui_worker, running, events, idle>>

\* The slot of convert_btn.clicked, which only an enabled button emits.
start_conversion ==
    /\ convert_btn
    /\ gui_worker < MaxConversions
    /\ IF gui_input_file = None \/ gui_output_file = None
       THEN UNCHANGED <<convert_btn, gui_worker, running>>
       ELSE /\ convert_btn' = FALSE
            /\ gui_worker' = gui_worker + 1
            /\ running' = running \cup {gui_worker + 1}
    /\ UNCHANGED <<gui_input_file, gui_output_file, events, idle>>

\* run() of worker w ends with its terminal signal, which is queued to the
\* thread of the window.
WorkerEnds(w) ==
    /\ w \in running
    /\ \E signal \in {"finished", "error"} :
          events' = Append(events, [worker |-> w, signal |-> signal])
    /\ running' = running \ {w}
    /\ UNCHANGED <<gui_input_file, gui_output_file, convert_btn, gui_worker, idle>>

conversion_finished ==
    /\ events # <<>>
    /\ Head(events).signal = "finished"
    /\ convert_btn' = TRUE
    /\ events' = Tail(events)
    /\ UNCHANGED <<gui_input_file, gui_output_file, gui_worker, running, idle>>

conversion_error ==
    /\ events # <<>>
    /\ Head(events).signal = "error"
    /\ convert_btn' = TRUE
    /\ events' = Tail(events)
    /\ UNCHANGED <<gui_input_file, gui_output_file, gui_worker, running, idle>>

-----------------------------------------------------------------------------
(* Specifications *)

\* The loop body applied to one line: exactly one branch takes it.
ParseLine(raw) ==
    \/ BrushMarker(raw)
    \/ OpenWorldspawn(raw)
    \/ CloseWorldspawn(raw)
    \/ WorldspawnProperty(raw)
    \/ StartBrush(raw)
    \/ PendingSkip(raw)
    \/ NestedOpen(raw)
    \/ CloseBrush(raw)
    \/ ParseFace(raw)
    \/ BrushOtherLine(raw)
    \/ SkipLine(raw)

\* A fresh converter parses a text line by line, then serializes the Document.
Next ==
    \/ \E raw \in Lines : ParseLine(raw)
    \/ ReturnStats /\ UNCHANGED <<worker, gui>>
    \/ GenerateVmf /\ UNCHANGED <<worker, gui>>

Spec == Init /\ [][Next]_vars

\* The same on longer texts, of 1..MaxBrushLines lines, over fewer lines:
\* markers, braces, one face line and one quoted line.
BrushLines ==
    { MarkerLine, OpenLine, CloseLine, KvLine("classname", "worldspawn"),
      FaceText("  ", SENTINEL, Num(FALSE, 0, 1, FALSE), Num(FALSE, 1, 1, FALSE),
               Num(FALSE, 1, 1, FALSE)) }

InitDeep ==
    /\ default_texture = DEFAULT_TEXTURE
    /\ text_len \in 1..MaxBrushLines
    /\ Fresh
    /\ NoWorker

NextDeep ==
    \/ \E raw \in BrushLines : ParseLine(raw)
    \/ ReturnStats /\ UNCHANGED <<worker, gui>>
    \/ GenerateVmf /\ UNCHANGED <<worker, gui>>

SpecDeep == InitDeep /\ [][NextDeep]_vars

\* One run of a worker on a text of 1..MaxLines lines: brush lines, and a face
\* line whose rotation is too long for int().
WorkerLines ==
    BrushLines \cup
    { FaceText("", "tex/wall", Num(FALSE, 1, LongRun, FALSE), Num(FALSE, 1, 1, FALSE),
               Num(FALSE, 1, 1, FALSE)) }

InitWorker ==
    /\ default_texture = DEFAULT_TEXTURE
    /\ text_len \in 1..MaxLines
    /\ Fresh
    /\ wpc = "start"
    /\ signals = <<>>
    /\ output_file \in {NoFile, File(OldContent)}
    /\ InitUi

NextWorker ==
    \/ WorkerReadFails
    \/ WorkerRead
    \/ \E raw \in WorkerLines : ParseLine(raw)
    \/ WorkerParsed
    \/ WorkerRaised
    \/ WorkerGenerated
    \/ WorkerOpenFails
    \/ WorkerOpen
    \/ WorkerWriteFails
    \/ WorkerWrite
    \/ WorkerFinished

SpecWorker == InitWorker /\ [][NextWorker]_vars

\* The window: the user selects files and clicks the button while the workers
\* it started run and end.
InitGui ==
    /\ default_texture = DEFAULT_TEXTURE
    /\ text_len = 0
    /\ Fresh
    /\ NoWorker

NextGui ==
    \/ \E file_path \in InputPaths : select_input_file(file_path)
    \/ \E file_path \in OutputPaths : select_output_file(file_path)
    \/ start_conversion
    \/ \E w \in running : WorkerEnds(w)
    \/ conversion_finished
    \/ conversion_error

SpecGui == InitGui /\ [][NextGui]_vars

\* generate_vmf as a function of the Document: a converter holding any Document
\* of at most MaxBrushes brushes of at most MaxFaces faces is serialized.
SeqsUpTo(S, n) == UNION {[1..k -> S] : k \in 0..n}

GenFaceLines ==
    {l \in Lines : l.kind = "face" /\ FaceMatch(l) /\ ~IntMayRaise(l.rotation)}
    \cup {FaceText("", "tex/wall", Num(FALSE, 0, 1, FALSE), Num(FALSE, 1, 1, FALSE),
                   Num(FALSE, 1, 1, FALSE))}
GenFaces == {MakeFace(strip(l), DEFAULT_TEXTURE) : l \in GenFaceLines}
GenBrushes == {[faces |-> fs] : fs \in SeqsUpTo(GenFaces, MaxFaces)}
GenProperties ==
    { <<>>,
      <<[key |-> "classname", value |-> "worldspawn"],
        [key |-> "mapversion", value |-> "220"]>> }

InitGen ==
    /\ default_texture = DEFAULT_TEXTURE
    /\ worldspawn_properties \in GenProperties
    /\ brushes \in SeqsUpTo(GenBrushes, MaxBrushes)
    /\ lines = <<>>
    /\ in_worldspawn = FALSE
    /\ in_brush = FALSE
    /\ current_brush = None
    /\ brace_depth = 0
    /\ pending_brush = FALSE
    /\ brush_count = 0
    /\ face_count = 0
    /\ material_replacements = 0
    /\ pc = "document"
    /\ stats = None
    /\ vmf = <<>>
    /\ trace = <<>>
    /\ current_src = <<>>
    /\ brushes_src = <<>>
    /\ text_len = 0
    /\ NoWorker

NextGen == GenerateVmf /\ UNCHANGED <<worker, gui>>

SpecGen == InitGen /\ [][NextGen]_vars

-----------------------------------------------------------------------------
(* Properties *)

Returned == pc \in {"parsed", "generated"}

\* The lines the loop took by the branch `tag`.
Taken(tag) == {i \in 1..Len(trace) : trace[i] = tag}
Count(tag) == Cardinality(Taken(tag))

\* The input lines that are '// brush' markers.
MarkerLines == {i \in 1..Len(lines) : IsBrushMarker(strip(lines[i]))}

\* The worldspawn keys the input wrote, and the first and last write of a key.
WrittenKeys == {strip(lines[i]).key : i \in Taken("property")}
WritesOf(k) == {i \in Taken("property") : strip(lines[i]).key = k}
FirstWrite(k) == CHOOSE i \in WritesOf(k) : \A j \in WritesOf(k) : i <= j
LastWrite(k) == CHOOSE i \in WritesOf(k) : \A j \in WritesOf(k) : j <= i

\* The property lines of the output, in output order.
VmfProperties == SelectSeq(vmf, LAMBDA l : Len(l) = 5 /\ l[1] = "\t\"")

\* One output line per distinct key, carrying the value of the key's last write.
OneLinePerKey ==
    /\ Len(VmfProperties) = Cardinality(WrittenKeys)
    /\ \A k \in WrittenKeys :
          \E i \in 1..Len(VmfProperties) :
             /\ VmfProperties[i][2] = k
             /\ VmfProperties[i][4] = strip(lines[LastWrite(k)]).value

\* C1 as stated: one line per distinct worldspawn key with the value of its
\* last write, the lines ordered by the position of each key's LAST write.
C1_OrderedByLastWrite ==
    pc = "generated" =>
       /\ OneLinePerKey
       /\ \A i, j \in 1..Len(VmfProperties) :
             i < j => LastWrite(VmfProperties[i][2]) < LastWrite(VmfProperties[j][2])

\* C1 amended: one line per distinct worldspawn key with the value of its last
\* write, the lines ordered by the position of each key's FIRST write: a key
\* written again keeps its place and only takes the new value.
C1_OrderedByFirstWrite ==
    pc = "generated" =>
       /\ OneLinePerKey
       /\ \A i, j \in 1..Len(VmfProperties) :
             i < j => FirstWrite(VmfProperties[i][2]) < FirstWrite(VmfProperties[j][2])

\* A key is written, another key is written after it, and the first is written again.
C1_Witness ==
    /\ pc = "generated"
    /\ \E k1, k2 \in WrittenKeys :
          /\ k1 # k2
          /\ FirstWrite(k1) < FirstWrite(k2)
          /\ LastWrite(k2) < LastWrite(k1)
          /\ strip(lines[FirstWrite(k1)]).value # strip(lines[LastWrite(k1)]).value

\* C2: the number of brushes appended, reported as brushes_processed, is the
\* number of closing braces that brought the depth of an opened brush to 0, and
\* is at most brushes_found, the number of '// brush' marker lines of the input.
C2_ProcessedCountsClosedBrushes ==
    Returned =>
       /\ Len(brushes) = Count("brush_closed")
       /\ stats.brushes_processed = Count("brush_closed")
       /\ stats.brushes_found = Cardinality(MarkerLines)
       /\ stats.brushes_processed <= stats.brushes_found

\* A brush was closed and a later marker opened none.
C2_Witness ==
    /\ pc = "parsed"
    /\ stats.brushes_processed >= 1
    /\ stats.brushes_processed < stats.brushes_found

\* The faces of the Document, and the input line each was parsed from.
DocFaces ==
    UNION {{<<b, f>> : f \in 1..Len(brushes[b].faces)} : b \in 1..Len(brushes)}
SourceOf(bf) == strip(lines[brushes_src[bf[1]][bf[2]]])
FaceOf(bf) == brushes[bf[1]].faces[bf[2]]
SentinelDocFaces == {bf \in DocFaces : SourceOf(bf).material = SENTINEL}

\* C3: after parse_map_file a face whose line carried __TB_empty has the
\* material default_texture, a face whose line carried another token has that
\* token, and no face keeps the sentinel unless default_texture is the sentinel.
C3_SentinelReplacedOthersKept ==
    Returned =>
       \A bf \in DocFaces :
          /\ SourceOf(bf).material = SENTINEL => FaceOf(bf).material = default_texture
          /\ SourceOf(bf).material # SENTINEL => FaceOf(bf).material = SourceOf(bf).material
          /\ default_texture # SENTINEL => FaceOf(bf).material # SENTINEL

\* A face parsed from a sentinel line reached the Document.
C3_Witness ==
    /\ pc = "parsed"
    /\ default_texture # SENTINEL
    /\ SentinelDocFaces # {}

\* C4 as stated: material_replacements is the number of faces of the Document
\* whose line carried the sentinel.
C4_ReplacementsCountDocumentFaces ==
    Returned => stats.material_replacements = Cardinality(SentinelDocFaces)

\* The face lines that matched inside a brush and carried the sentinel.
SentinelFacesParsed ==
    {i \in Taken("face") : strip(lines[i]).material = SENTINEL}

\* C4 amended: material_replacements is the number of sentinel face lines parsed
\* into a face, whether or not the brush of the face reaches the Document; it
\* is at least the number of sentinel faces of the Document, and equal to it
\* when every brush that was opened was closed.
C4_ReplacementsCountParsedFaces ==
    Returned =>
       /\ stats.material_replacements = Cardinality(SentinelFacesParsed)
       /\ stats.material_replacements >= Cardinality(SentinelDocFaces)
       /\ Count("start_brush") = Count("brush_closed") =>
             stats.material_replacements = Cardinality(SentinelDocFaces)

\* A sentinel face was parsed in a brush that never reached the Document.
C4_Witness ==
    /\ pc = "parsed"
    /\ stats.material_replacements >= 1
    /\ SentinelDocFaces = {}

\* The number of faces of a sequence of brushes, and of the brushes before b.
RECURSIVE FaceTotal(_)
FaceTotal(bs) == IF bs = <<>> THEN 0 ELSE Len(Head(bs).faces) + FaceTotal(Tail(bs))
FacesBefore(b) == FaceTotal(SubSeq(brushes, 1, b - 1))

\* The id lines of the solids and of the sides, in output order.
IsSolidId(l) == Len(l) = 3 /\ l[1] = "\t\t\"id\" \""
IsSideId(l) == Len(l) = 3 /\ l[1] = "\t\t\t\"id\" \""
SolidIdLines == SelectSeq(vmf, IsSolidId)
SideIdLines == SelectSeq(vmf, IsSideId)
\* The output lines of solid b: from its id line to the id line of the next solid.
SolidAt(b) == CHOOSE i \in 1..Len(vmf) : vmf[i] = <<"\t\t\"id\" \"", ToString(b), "\"">>
SolidEnd(b) == IF b = Len(brushes) THEN Len(vmf) ELSE SolidAt(b + 1)
SideIdsIn(b) == {vmf[i][2] : i \in {j \in SolidAt(b)..SolidEnd(b) : IsSideId(vmf[j])}}

\* C5: the solids carry the ids 1..n in Document order, one per brush; the
\* sides carry the ids 2, 3, ... in (brush order, face order) from one counter
\* that is never reset, so the sides of brush b carry the ids that follow those
\* of the brushes before it and the last side id is 1 + the number of faces.
C5_SequentialIds ==
    pc = "generated" =>
       /\ Len(SolidIdLines) = Len(brushes)
       /\ \A b \in 1..Len(brushes) : SolidIdLines[b][2] = ToString(b)
       /\ Len(SideIdLines) = FaceTotal(brushes)
       /\ \A k \in 1..Len(SideIdLines) : SideIdLines[k][2] = ToString(k + 1)
       /\ \A b \in 1..Len(brushes) :
             SideIdsIn(b) = {ToString(FacesBefore(b) + f + 1) :
                                f \in 1..Len(brushes[b].faces)}

\* Two brushes with faces were serialized, after a brush with no face or not.
C5_Witness ==
    /\ pc = "generated"
    /\ Len(brushes) >= 2
    /\ brushes[1].faces # <<>>
    /\ brushes[Len(brushes)].faces # <<>>

\* C6 as stated: parse_map_file never raises: some branch of the loop body takes every
\* line in every state of the parser, the loop can always end and return the
\* statistics, and a face is never appended while current_brush is None.
C6_NeverRaises ==
    /\ pc # "raised"
    /\ Len(trace) = Len(lines)
    /\ in_brush => current_brush # None
    /\ LoopGuard =>
          \A raw \in Lines : ENABLED ParseLine(raw)
    /\ (pc = "parsing" /\ Len(lines) = text_len) => ENABLED ReturnStats
    /\ Returned => stats # None

\* C7: a brush is appended only by the '}' line that brings the brace depth of
\* the open brush to 0; the end of the input appends nothing, so a brush still
\* open there never reaches brushes.
C7_OpenBrushDiscarded ==
    [][ /\ (pc = "parsing" /\ pc' # "parsing") => brushes' = brushes
        /\ brushes' # brushes =>
              /\ in_brush
              /\ brace_depth = 1
              /\ brace_depth' = 0
              /\ Len(lines') = Len(lines) + 1
              /\ IsCloseBrace(strip(lines'[Len(lines')]))
              /\ brushes' = Append(brushes, current_brush) ]_vars

\* The input ended inside a brush that holds a face.
C7_Witness ==
    /\ pc = "parsed"
    /\ in_brush
    /\ current_brush # None
    /\ current_brush.faces # <<>>
    /\ brushes = <<>>

\* The markers that no '{' line follows before the next marker or the end.
OpenFollows(i) ==
    \E j \in (i + 1)..Len(lines) :
       /\ IsOpenBrace(strip(lines[j]))
       /\ \A m \in (i + 1)..(j - 1) : ~IsBrushMarker(strip(lines[m]))
OrphanMarkers == {i \in MarkerLines : ~OpenFollows(i)}

\* C8: every marker counts in brushes_found, a marker that no '{' follows
\* before the next marker or the end of the input appends no brush, and an
\* input with such a marker has brushes_processed < brushes_found.
C8_OrphanMarkerNotProcessed ==
    Returned =>
       /\ stats.brushes_found = Cardinality(MarkerLines)
       /\ stats.brushes_processed <= stats.brushes_found - Cardinality(OrphanMarkers)
       /\ OrphanMarkers # {} => stats.brushes_processed < stats.brushes_found

\* A marker without '{' stands in an input that also closed a brush.
C8_Witness ==
    /\ pc = "parsed"
    /\ OrphanMarkers # {}
    /\ stats.brushes_processed >= 1

\* The lines of the side blocks, in output order.
PlaneLines == SelectSeq(vmf, LAMBDA l : l[1] = "\t\t\t\"plane\" \"(")
MaterialLines == SelectSeq(vmf, LAMBDA l : l[1] = "\t\t\t\"material\" \"")
UaxisLines == SelectSeq(vmf, LAMBDA l : l[1] = "\t\t\t\"uaxis\" \"[")
VaxisLines == SelectSeq(vmf, LAMBDA l : l[1] = "\t\t\t\"vaxis\" \"[")
LightmapLines == SelectSeq(vmf, LAMBDA l : l[1] = "\t\t\t\"lightmapscale\" \"16\"")
\* The raw line a face of the Document was parsed from.
RawOf(bf) == lines[brushes_src[bf[1]][bf[2]]]

\* C9: the side block of every face of the Document carries the three points,
\* the non-sentinel material and the two axes as the text of the groups of its
\* input line, with only the parentheses, brackets and suffix added.
C9_FieldsPassThrough ==
    pc = "generated" =>
       /\ Len(PlaneLines) = FaceTotal(brushes)
       /\ \A bf \in DocFaces :
             LET k == FacesBefore(bf[1]) + bf[2]
                 raw == RawOf(bf)
             IN /\ PlaneLines[k] = <<"\t\t\t\"plane\" \"(", raw.p1.text, ") (",
                                     raw.p2.text, ") (", raw.p3.text, ")\"">>
                /\ raw.material # SENTINEL =>
                      MaterialLines[k] = <<"\t\t\t\"material\" \"", raw.material, "\"">>
                /\ UaxisLines[k] = <<"\t\t\t\"uaxis\" \"[", raw.uaxis.text, "] 0.25\"">>
                /\ VaxisLines[k] = <<"\t\t\t\"vaxis\" \"[", raw.vaxis.text, "] 0.25\"">>

\* A face with a material of its own went from the input to the output.
C9_Witness ==
    /\ pc = "generated"
    /\ \E bf \in DocFaces : RawOf(bf).material # SENTINEL

\* The Document with rotation, scale_x and scale_y of every face set to 0.
WithoutScale(bs) ==
    [b \in 1..Len(bs) |->
        [faces |-> [f \in 1..Len(bs[b].faces) |->
                       [bs[b].faces[f] EXCEPT !.rotation = 0, !.scale_x = 0,
                                              !.scale_y = 0]]]]

\* C10: the output is that of the Document with rotation and scales erased, so
\* Documents that differ only there serialize alike; every axis line ends in
\* the suffix 0.25 and every side has the lightmapscale line 16.
C10_ScaleIgnored ==
    pc = "generated" =>
       /\ vmf = generate_vmf(worldspawn_properties, WithoutScale(brushes))
       /\ Len(UaxisLines) = FaceTotal(brushes)
       /\ Len(VaxisLines) = FaceTotal(brushes)
       /\ \A k \in 1..Len(UaxisLines) :
             Len(UaxisLines[k]) = 3 /\ UaxisLines[k][3] = "] 0.25\""
       /\ \A k \in 1..Len(VaxisLines) :
             Len(VaxisLines[k]) = 3 /\ VaxisLines[k][3] = "] 0.25\""
       /\ Len(LightmapLines) = FaceTotal(brushes)

\* A Document with two faces that differ only in rotation and scale was serialized.
C10_Witness ==
    /\ pc = "generated"
    /\ \E bf1, bf2 \in DocFaces :
          /\ FaceOf(bf1) # FaceOf(bf2)
          /\ [FaceOf(bf1) EXCEPT !.rotation = 0, !.scale_x = 0, !.scale_y = 0]
                = [FaceOf(bf2) EXCEPT !.rotation = 0, !.scale_x = 0, !.scale_y = 0]

\* The '}' lines that closed a brush, the '{' line that opened that brush, the
\* face lines parsed in between, and the place of the brush in `brushes`.
ClosingLines == Taken("brush_closed")
OpenOf(c) == CHOOSE i \in Taken("start_brush") :
                 i < c /\ \A j \in Taken("start_brush") : j < c => j <= i
FacesOf(c) == {i \in Taken("face") : OpenOf(c) < i /\ i < c}
Rank(c) == Cardinality({d \in ClosingLines : d <= c})

\* C11: a brush opened after a marker and closed with no face parsed is
\* appended to brushes with an empty face list, is counted in
\* brushes_processed, and is serialized as a solid block of its own id with no
\* side block; it uses up no side id, the side ids of the document staying
\* 2, 3, ... without a gap.
C11_EmptyBrushEmitted ==
    \A c \in ClosingLines :
        FacesOf(c) = {} =>
           /\ Rank(c) <= Len(brushes)
           /\ brushes[Rank(c)].faces = <<>>
           /\ Returned => stats.brushes_processed >= Rank(c)
           /\ Returned => stats.brushes_processed = Cardinality(ClosingLines)
           /\ pc = "generated" =>
                 /\ Len(SolidIdLines) = Len(brushes)
                 /\ SubSeq(vmf, SolidAt(Rank(c)) - 2, SolidAt(Rank(c)) + 1)
                       = << <<"\tsolid">>, <<"\t{">>,
                            <<"\t\t\"id\" \"", ToString(Rank(c)), "\"">>,
                            <<"\t}">> >>
                 /\ SideIdsIn(Rank(c)) = {}
                 /\ Len(SideIdLines) = FaceTotal(brushes)
                 /\ \A k \in 1..Len(SideIdLines) : SideIdLines[k][2] = ToString(k + 1)

\* A brush closed with no face, then a brush with a face, were serialized.
C11_Witness ==
    /\ pc = "generated"
    /\ \E c \in ClosingLines :
          /\ FacesOf(c) = {}
          /\ Rank(c) < Len(brushes)
          /\ brushes[Rank(c) + 1].faces # <<>>

\* C12: the empty text is one empty line; parsing it with a fresh converter
\* raises nothing, leaves worldspawn_properties and brushes empty and returns
\* the four statistics as 0, and generate_vmf then writes the world block with
\* id 0 and nothing else: no property line and no solid.
C12_EmptyInput ==
    (text_len = 1 /\ lines = <<BlankLine>>) =>
       /\ pc # "raised"
       /\ worldspawn_properties = <<>>
       /\ brushes = <<>>
       /\ pc = "parsing" => ENABLED ReturnStats
       /\ Returned => stats = [brushes_found |-> 0, brushes_processed |-> 0,
                               faces_processed |-> 0, material_replacements |-> 0]
       /\ pc = "generated" =>
             vmf = << <<"world">>, <<"{">>, <<"\t\"id\" \"0\"">>, <<"}">> >>

\* The empty text was parsed and serialized.
C12_Witness == text_len = 1 /\ lines = <<BlankLine>> /\ pc = "generated"

\* The terminal signals emitted so far, and the progress values in order.
Terminal == {i \in 1..Len(signals) : signals[i].signal \in {"finished", "error"}}
IsProgress(s) == s.signal = "progress"
ProgressValues == [i \in 1..Len(SelectSeq(signals, IsProgress)) |->
                      SelectSeq(signals, IsProgress)[i].value]
Emitted(name) == \E i \in 1..Len(signals) : signals[i].signal = name

\* C13: a run of the worker emits at most one terminal signal, finished or
\* error, and nothing after it; the run is over exactly when it has emitted
\* one, and until then it can always go on. finished is emitted only after the
\* text was parsed and serialized and the whole document written to the
\* destination, and after the progress values 25, 75, 90, 100 in that order.
C13_OneTerminalSignal ==
    /\ Cardinality(Terminal) <= 1
    /\ Terminal # {} => Terminal = {Len(signals)}
    /\ wpc = "done" <=> Terminal # {}
    /\ wpc # "done" => ENABLED NextWorker
    /\ \E n \in 0..4 : ProgressValues = SubSeq(<<25, 75, 90, 100>>, 1, n)
    /\ Emitted("finished") =>
          /\ ~Emitted("error")
          /\ Len(lines) = text_len
          /\ stats # None
          /\ pc = "generated"
          /\ output_file = File(vmf)
          /\ signals = <<Progress(25), Progress(75), Progress(90), Progress(100),
                         Finished>>

\* A run ended with finished.
C13_Witness == wpc = "done" /\ Emitted("finished") /\ brushes # <<>>

\* C14 as claimed: a run ends either with finished and the whole document in
\* the destination, or with error and the destination as it was before the run.
C14_NoPartialResult ==
    wpc = "done" =>
       \/ Emitted("finished") /\ output_file = File(vmf)
       \/ Emitted("error") /\ output_file \in {NoFile, File(OldContent)}

\* The line the loop has just read, stripped.
ReadsLine == Len(lines') = Len(lines) + 1
LineRead == strip(lines'[Len(lines')])

\* C15 as claimed: while a brush open is pending, a line that is neither '{'
\* nor a '// brush' marker changes neither worldspawn_properties, nor brushes,
\* nor a counter, nor a parser flag.
C15_PendingLinesInert ==
    [][(pending_brush /\ ReadsLine /\ pc' # "raised"
           /\ ~IsOpenBrace(LineRead) /\ ~IsBrushMarker(LineRead))
         => UNCHANGED <<worldspawn_properties, brushes, counters, flags>>]_vars

\* Whether the worldspawn block is open after line i: a '{' opened it and no
\* '}' has closed it since.
WorldspawnOpenAt(i) ==
    \E j \in Taken("open_worldspawn") :
        j <= i /\ \A k \in Taken("close_worldspawn") : ~(j < k /\ k <= i)
HasKey(key) == \E p \in 1..Len(worldspawn_properties) : worldspawn_properties[p].key = key

\* C16 as claimed: after the '}' that closes a brush the parser is not in a
\* brush, has no brush open pending and is not in worldspawn, and a quoted line
\* that follows is not upserted.
C16_ClosedBrushLeavesOutside ==
    \A c \in ClosingLines :
        /\ c = Len(lines) => ~in_brush /\ ~pending_brush /\ ~in_worldspawn
        /\ (c < Len(lines) /\ StartsWithQuote(strip(lines[c + 1])))
              => trace[c + 1] # "property"

\* C16: the '}' that brings the brace depth to 0 appends the brush and leaves
\* the parser not in a brush and with no brush open pending; the worldspawn
\* flag stays as it was before that line, so a quoted line right after the
\* closed brush is upserted exactly when the worldspawn block was open.
C16_ClosedBrushKeepsWorldspawn ==
    \A c \in ClosingLines :
        /\ Rank(c) <= Len(brushes)
        /\ c = Len(lines) =>
              /\ ~in_brush /\ ~pending_brush /\ current_brush = None
              /\ brace_depth = 0
              /\ in_worldspawn = WorldspawnOpenAt(c - 1)
        /\ (c < Len(lines) /\ StartsWithQuote(strip(lines[c + 1]))) =>
              /\ trace[c + 1] = IF WorldspawnOpenAt(c - 1) THEN "property" ELSE "skip"
              /\ WorldspawnOpenAt(c - 1) => HasKey(lines[c + 1].key)

\* A brush was closed inside the open worldspawn block and the quoted line
\* after it was upserted.
C16_Witness ==
    trace = <<"open_worldspawn", "marker", "start_brush", "brush_closed", "property">>

\* C17: a '}' line closes the worldspawn block only when the parser is not in
\* a brush and no brush open is pending: a step that reads '}' while in a brush
\* or while pending leaves in_worldspawn as it is, and a step that reads '}'
\* outside both, with the block open, closes it.
C17_CloseOnlyOutsideBrush ==
    [][(ReadsLine /\ IsCloseBrace(LineRead)) =>
          /\ (in_brush \/ pending_brush) => in_worldspawn' = in_worldspawn
          /\ (~in_brush /\ ~pending_brush) => ~in_worldspawn'
          /\ in_worldspawn' => in_worldspawn]_vars

\* A '}' was read in the open worldspawn block while a brush open was pending,
\* another one inside a brush, and the block is still open.
C17_Witness ==
    /\ in_worldspawn
    /\ \E i, j \in 1..Len(lines) :
          /\ IsCloseBrace(strip(lines[i])) /\ trace[i] = "pending_skip"
          /\ IsCloseBrace(strip(lines[j])) /\ trace[j] = "brush_closed"

\* C18 as claimed: in a brush a '{' line only increments the brace depth and a
\* '}' line only decrements it, whatever else the parser has seen, and at the
\* return one brush has been appended per brush opened.
C18_BracesOnlyCount ==
    [][/\ (ReadsLine /\ in_brush /\ IsOpenBrace(LineRead)) =>
             /\ brace_depth' = brace_depth + 1
             /\ UNCHANGED <<in_brush, current_brush, brushes>>
       /\ (ReadsLine /\ in_brush /\ IsCloseBrace(LineRead)) =>
             brace_depth' = brace_depth - 1
       /\ pc' = "parsed" =>
             Len(brushes') = Cardinality({i \in 1..Len(trace') : trace'[i] = "start_brush"})
      ]_vars

\* C18: in a brush with no brush open pending, a '{' line only increments the
\* brace depth and a '}' line only decrements it; the '}' that leaves the depth
\* above 0 appends nothing and the one that brings it to 0 appends the current
\* brush. Nothing else appends a brush, so at most one brush is appended per
\* brush opened; one that is replaced or left open is never appended. With a
\* brush open pending inside a brush, '{' starts a new empty brush in place of
\* the current one and '}' is skipped. In a brush the brace depth is >= 1.
C18_NestedBraces ==
    [][ReadsLine =>
          /\ (in_brush /\ ~pending_brush /\ IsOpenBrace(LineRead)) =>
                /\ brace_depth' = brace_depth + 1
                /\ UNCHANGED <<in_brush, pending_brush, in_worldspawn, current_brush,
                               brushes, counters, worldspawn_properties>>
          /\ (in_brush /\ ~pending_brush /\ IsCloseBrace(LineRead)) =>
                /\ brace_depth' = brace_depth - 1
                /\ brace_depth' > 0 => UNCHANGED <<in_brush, current_brush, brushes>>
                /\ brace_depth' = 0 =>
                      ~in_brush' /\ brushes' = Append(brushes, current_brush)
                /\ UNCHANGED <<pending_brush, in_worldspawn, counters,
                               worldspawn_properties>>
          /\ brushes' # brushes =>
                /\ in_brush /\ ~pending_brush /\ IsCloseBrace(LineRead)
                /\ brace_depth = 1
                /\ brushes' = Append(brushes, current_brush)
          /\ (in_brush /\ pending_brush /\ IsOpenBrace(LineRead)) =>
                /\ in_brush' /\ ~pending_brush' /\ brace_depth' = 1
                /\ current_brush' = [faces |-> <<>>]
                /\ brushes' = brushes
          /\ (in_brush /\ pending_brush /\ IsCloseBrace(LineRead)) =>
                UNCHANGED <<flags, current_brush, brushes>>
          /\ Len(brushes') <=
                Cardinality({i \in 1..Len(trace') : trace'[i] = "start_brush"})
          /\ in_brush' => brace_depth' >= 1
      ]_vars

\* A brush with a face, a nested '{' and its '}' was closed with its face.
C18_Witness ==
    /\ trace = <<"marker", "start_brush", "face", "nested_open", "nested_close",
                 "brush_closed">>
    /\ Len(brushes) = 1
    /\ Len(brushes[1].faces) = 1

\* The face grammar ends in three unsigned integers: rotation, scale_x, scale_y.
IsUnsignedInteger(tok) == ~tok.neg /\ ~tok.frac
InFaceGrammar(line) ==
    /\ IsUnsignedInteger(line.rotation)
    /\ IsUnsignedInteger(line.scale_x)
    /\ IsUnsignedInteger(line.scale_y)

\* C19 as claimed: a line that begins with '(', is read in a brush with no
\* brush open pending and is not in the face grammar is dropped: no face is
\* appended, the counters, the flags, the brace depth, brushes and
\* worldspawn_properties stay as they are, and nothing is raised.
C19_UnmatchedFaceDropped ==
    [][(ReadsLine /\ in_brush /\ ~pending_brush /\ StartsWithParen(LineRead)
           /\ ~InFaceGrammar(LineRead))
         => /\ UNCHANGED <<current_brush, counters, flags, brushes,
                           worldspawn_properties>>
            /\ pc' = "parsing"]_vars

\* The brush a '{' line opened is abandoned when no '}' closes it before the
\* next brush is opened or the input ends; a parsed face is lost when its
\* brush is.
NextStart(i) ==
    IF \E j \in Taken("start_brush") : j > i
    THEN CHOOSE j \in Taken("start_brush") :
            j > i /\ \A k \in Taken("start_brush") : k > i => j <= k
    ELSE Len(trace) + 1
Closed(i) == \E c \in ClosingLines : i < c /\ c < NextStart(i)
AbandonedBrushes == {o \in Taken("start_brush") : ~Closed(o)}
LostFaces == {i \in Taken("face") : ~Closed(i)}

\* C20 as claimed: the brushes hold at most faces_processed faces, and exactly
\* faces_processed when no opened brush was abandoned, and only then.
C20_EqualityIffNoneAbandoned ==
    Returned =>
       /\ FaceTotal(brushes) <= stats.faces_processed
       /\ FaceTotal(brushes) = stats.faces_processed <=> AbandonedBrushes = {}

\* C20: faces_processed counts every face parsed; the brushes hold those whose
\* brush was closed, so they hold at most faces_processed faces, and exactly
\* faces_processed when no face was parsed in a brush that was then abandoned:
\* replaced by a new empty brush after a marker inside it, or left open at the
\* end of the input. An abandoned brush without a face leaves the two equal.
C20_DocumentFaces ==
    Returned =>
       /\ stats.faces_processed = Count("face")
       /\ FaceTotal(brushes) = Count("face") - Cardinality(LostFaces)
       /\ FaceTotal(brushes) <= stats.faces_processed
       /\ FaceTotal(brushes) = stats.faces_processed <=> LostFaces = {}
       /\ AbandonedBrushes = {} => FaceTotal(brushes) = stats.faces_processed

\* A brush with a face was replaced after a marker inside it, and the brush
\* that replaced it was closed: the face is counted and not in the Document.
C20_Witness ==
    /\ Returned
    /\ trace = <<"marker", "start_brush", "face", "marker", "start_brush",
                 "brush_closed">>
    /\ FaceTotal(brushes) = 0
    /\ stats.faces_processed = 1

\* A conversion is in progress from start_conversion until the slot of its
\* terminal signal has run.
InProgress == running # {} \/ events # <<>>

\* C21 as claimed: while a conversion is in progress the convert button is
\* disabled, and at most one worker is running.
C21_ButtonDisabledWhileConverting ==
    /\ InProgress => ~convert_btn
    /\ Cardinality(running) <= 1

====
